---- MODULE Spec2Model ----
(***************************************************************************)
(* Model of timelapse.py: the capture loop (capture_photos) and the daily  *)
(* video assembly (save_video).                                            *)
(*                                                                         *)
(* Time is discrete: a calendar date is a number 1..MaxDay and a time of   *)
(* day is a slot 0..DayLen-1.  A datetime is the pair <<date, slot>>; its  *)
(* .time() is the slot alone.  The 40 minute margin is Margin slots.       *)
(* A frame IMG_<date><time>.jpg in a directory is the triple               *)
(* <<date, slot, directory>>, a video VID_<date>[_TS].mp4 is the pair      *)
(* <<date, profile>>.  The directories are "out", the output directory,    *)
(* and "other", a directory next to it.                                    *)
(***************************************************************************)
EXTENDS Integers, FiniteSets, Sequences, TLC

MaxDay == 2      \* dates the clock runs through
DayLen == 3      \* slots in a day
Margin == 1
NumProfiles == 2
MaxFrames == 1   \* frames the output directory has room for

Days == 1..MaxDay
Slots == 0..(DayLen - 1)
Profiles == 1..NumProfiles

VARIABLES
  clock,      \* the wall clock: <<date, slot>>
  sun,        \* <<sunrise slot, sunset slot>> SUN reported to the latest tick (NoSun once the loop is over)
  playlist,   \* YOUTUBE_PLAYLIST_NAME is not None
  interval_sec, \* capture_photos: interval_sec, by what time.sleep does with it
  output_directory, \* the name of the output directory, by how glob reads it
  ended_day,  \* capture_photos: ended_day (0 is None)
  pc,         \* position of the single thread of control
  frames,     \* IMG_*.jpg files, in the output directory and next to it
  vids,       \* VID_*.mp4 files in the output directory
  vid_date,   \* save_video: vid_date (0 outside a run)
  idx,        \* save_video: position in run_list (0 outside a run)
  success,    \* save_video: success ("None", "True", "False")
  todel,      \* save_video: files of glob.glob(...) not yet removed
  rcs,        \* history: per profile, what the current run did at it
  pubs,       \* history: per profile, outcome of its publish call in the run
  preVids,    \* history: profiles whose output existed when the run started
  preFrames,  \* history: frames in the directory when the run started
  preAllVids, \* history: video files in the directory when the run started
  closed,     \* history: the dates on which the end-of-day branch was taken
  ran,        \* history: the dates save_video was called for
  lastTick,   \* history: what the latest tick saw and which branch it took
  cause       \* history: the latest exception raised in the loop, and where

vars == <<clock, sun, playlist, interval_sec, output_directory, ended_day, pc, frames,
          vids, vid_date, idx, success, todel, rcs, pubs, preVids, preFrames,
          preAllVids, closed, ran, lastTick, cause>>

hist == <<rcs, pubs, preVids, preFrames, preAllVids, closed, ran, lastTick, cause>>

----------------------------------------------------------------------------
(* Pure parts of the code *)

\* (x - timedelta(minutes=40)).time() and (x + timedelta(minutes=40)).time():
\* the shifted instant's time of day, its date dropped.
WindowStart(sunrise) == (sunrise - Margin) % DayLen

\* a window end kept as an instant of the same date
WindowEnd_NoWrap(sunset) == sunset + Margin

WindowEnd(sunset) == (sunset + Margin) % DayLen

\* the names an output directory is given: a plain one, one with a character
\* class, one with a wildcard
DirNames == {"cam", "a[1]", "cam*"}

\* the directories the name matches when glob reads it as a pattern: a plain
\* name matches itself and not the directory next to it; "a[1]" matches the
\* directory a1 next to it and not itself; "cam*" matches itself and the
\* directory cam2 next to it
GlobDirs(name) ==
  CASE name = "cam" -> {"out"}
    [] name = "a[1]" -> {"other"}
    [] name = "cam*" -> {"out", "other"}

\* a pattern without the date: IMG_*.jpg
Glob_AllDays(fs, name, day) == {f \in fs : f[3] \in GlobDirs(name)}

\* glob.glob(f"{output_directory}/IMG_<day>*.jpg")
Glob(fs, name, day) == {f \in fs : f[3] \in GlobDirs(name) /\ f[1] = day}

\* a close that calls save_video whether or not a frame matches
PipelineWanted_Always(fs, name, day) == TRUE

\* line 88: len(glob.glob(input_path_pattern)) > 0
PipelineWanted(fs, name, day) == Glob(fs, name, day) # {}

\* line 95: the file camera.capture writes at the instant now; the path is
\* taken as it is written, so the file is in the output directory
FramePath(now) == <<now[1], now[2], "out">>

\* line 86: ended_day = now.date()
MarkClosed(today) == today

\* run_list: the out_path of each entry, for vid_date = day
OutPath(day, p) == <<day, p>>

\* an encode that does not look for an existing output
MustSkip_Never(vs, day, p) == FALSE

\* line 43: os.path.isfile(out_path)
MustSkip(vs, day, p) == OutPath(day, p) \in vs

\* run_list: upload_title of each entry
UploadTitle(p, pl) == IF p = NumProfiles /\ pl THEN "title" ELSE "None"

\* a skip that leaves the flag as it was
SkipSuccess_Keeps(s) == s

\* line 45: the aggregate flag after a profile whose output exists
SkipSuccess(s) == "False"

\* a fold that keeps the latest exit status only
FoldSuccess_LastOnly(s, rc) == IF rc = 0 THEN "True" ELSE "False"

\* line 49: success = (success or success is None) and proc.returncode == 0
FoldSuccess(s, rc) == IF (s = "True" \/ s = "None") /\ rc = 0 THEN "True" ELSE "False"

\* a publish test that does not look at the exit status
PublishWanted_AnyExit(title, rc) == title # "None"

\* line 52: upload_title is not None and proc.returncode == 0
PublishWanted(title, rc) == title # "None" /\ rc = 0

\* a deletion test that trusts the exit statuses alone
ShouldDelete_NoIsfile(s, vs, day) == s = "True"

\* line 56: success and all(os.path.isfile(f) for f in out paths)
ShouldDelete(s, vs, day) == s = "True" /\ \A p \in Profiles : OutPath(day, p) \in vs

\* lines 79-97: which branch of the tick is taken
Branch(today, t, ended, sunrise, sunset) ==
  IF today = ended THEN "closed"
  ELSE IF t < WindowStart(sunrise) THEN "before"
  ELSE IF t > WindowEnd(sunset) THEN "close"
  ELSE "capture"

\* a loop that survives a capture fault
AfterCapture_Caught(outcome) == "sleep"

\* lines 94-103: where control goes after camera.capture
AfterCapture(outcome) == IF outcome = "ok" THEN "sleep" ELSE "crashed"

\* line 54 under lines 71-103: where control goes after the publish call;
\* subprocess.run(..., timeout=600) without check=True returns on any exit
\* status and raises TimeoutExpired on a timeout, which nothing catches.
AfterPublish(outcome, next) == IF outcome = "timeout" THEN "crashed" ELSE next

\* a loop left after its first profile
NextPc_Early(i) == "check"

\* the for loop of line 37: what follows profile i
NextPc(i) == IF i < NumProfiles THEN "enc" ELSE "check"

\* a loop that stops at the first failed encode
AfterEncode_Break(i, rc) == IF rc # 0 THEN "check" ELSE NextPc(i)

\* lines 48-52: where control goes once the encoder has returned rc and no
\* publish call follows: on to the next profile, whatever rc is
AfterEncode(i, rc) == NextPc(i)

\* an interrupt that save_video does not see
AfterInterrupt_Deferred(at) == IF at \in {"enc", "pub", "check", "del"} THEN at ELSE "exited"

\* an interrupt caught inside the loop, which goes on to the next tick
AfterInterrupt_Continue(at) == "tick"

\* lines 71-72 and 102-103: the try block encloses the whole loop, so a
\* KeyboardInterrupt raised at any position `at` inside it ends the loop
AfterInterrupt(at) == "exited"

NextIdx(i) == i + 1

NoRun == [p \in Profiles |-> "none"]

NoTick == [day |-> 0, slot |-> 0, ended |-> 0, branch |-> "none"]

NoSun == <<>>

----------------------------------------------------------------------------
\* lines 76-77: the times of day of sunrise and sunset SUN reports for a date,
\* in the system's time zone; neither is known to come first
Suns == Slots \X Slots

\* --interval: type=int, so any integer.  time.sleep raises ValueError for a
\* negative one and OverflowError or OSError for one too large for it
Intervals == {"negative", "nonnegative", "toolarge"}

\* the frames the output directory and the directory next to it may hold
\* when the loop starts, whatever the output directory's name
InitFrames == SUBSET {<<1, 0, "out">>, <<1, 0, "other">>}

Init ==
  /\ clock \in {<<1, t>> : t \in Slots}
  /\ sun \in Suns
  /\ playlist \in BOOLEAN
  /\ interval_sec \in Intervals
  /\ output_directory \in DirNames
  /\ ended_day = 0
  /\ pc = "tick"
  /\ frames \in InitFrames
  /\ vids \in SUBSET {OutPath(1, p) : p \in Profiles}
  /\ vid_date = 0
  /\ idx = 0
  /\ success = "None"
  /\ todel = {}
  /\ rcs = NoRun
  /\ pubs = NoRun
  /\ preVids = {}
  /\ preFrames = {}
  /\ preAllVids = {}
  /\ closed = {}
  /\ ran = {}
  /\ lastTick = NoTick
  /\ cause = [why |-> "none", at |-> "none"]

Seen(br) == [day |-> clock[1], slot |-> clock[2], ended |-> ended_day, branch |-> br]

\* lines 79-97: the branch a tick takes when SUN reports s
BranchAt(s) == Branch(clock[1], clock[2], ended_day, s[1], s[2])

\* lines 76-77: a call of SUN raises (suntime: no sunrise or sunset at this
\* place on this date); nothing in the loop catches it
TickSunFault ==
  /\ pc = "tick"
  /\ pc' = "crashed"
  /\ cause' = [why |-> "sun", at |-> "tick"]
  /\ sun' = NoSun
  /\ UNCHANGED <<clock, playlist, interval_sec, output_directory, ended_day, frames, vids,
                 vid_date, idx, success, todel, rcs, pubs, preVids, preFrames,
                 preAllVids, closed, ran, lastTick>>

\* lines 73-83: today is closed already, or the window has not opened
TickIdle ==
  /\ pc = "tick"
  /\ BranchAt(sun) \in {"closed", "before"}
  /\ lastTick' = Seen(BranchAt(sun))
  /\ UNCHANGED sun
  /\ pc' = "sleep"
  /\ UNCHANGED <<clock, playlist, interval_sec, output_directory, ended_day, frames, vids, vid_date,
                 idx, success, todel, rcs, pubs, preVids, preFrames, preAllVids,
                 closed, ran, cause>>

\* lines 73-77 and 94-97: one capture, named from now; the disk holds
\* MaxFrames frames, and a capture for which there is no room raises
TickCapture ==
  /\ pc = "tick"
  /\ BranchAt(sun) = "capture"
  /\ \E outcome \in {"ok", "fault"} :
       /\ sun' = IF outcome = "ok" THEN sun ELSE NoSun
       /\ outcome = "ok" =>
            Cardinality({f \in frames \cup {FramePath(clock)} : f[3] = "out"}) <= MaxFrames
       /\ frames' = IF outcome = "ok" THEN frames \cup {FramePath(clock)} ELSE frames
       /\ pc' = AfterCapture(outcome)
       /\ cause' = IF outcome = "fault"
                   THEN [why |-> "capture", at |-> "tick"] ELSE cause
  /\ lastTick' = Seen("capture")
  /\ UNCHANGED <<clock, playlist, interval_sec, output_directory, ended_day, vids, vid_date, idx,
                 success, todel, rcs, pubs, preVids, preFrames, preAllVids, closed, ran>>

\* lines 73-77 and 85-90: the day ends: the marker is set, and when frames
\* match the thread waits in time.sleep(2) before it calls save_video
TickClose ==
  /\ pc = "tick"
  /\ BranchAt(sun) = "close"
  /\ UNCHANGED sun
  /\ ended_day' = MarkClosed(clock[1])
  /\ closed' = closed \cup {clock[1]}
  /\ lastTick' = Seen("close")
  /\ pc' = IF PipelineWanted(frames, output_directory, clock[1]) THEN "presave" ELSE "sleep"
  /\ UNCHANGED <<clock, playlist, interval_sec, output_directory, frames, vids, vid_date, idx,
                 success, todel, rcs, pubs, preVids, preFrames, preAllVids, ran,
                 cause>>

\* lines 91 and 20-36: save_video(ended_day, output_directory) is entered
CallSaveVideo ==
  /\ pc = "presave"
  /\ pc' = "enc"
  /\ UNCHANGED sun
  /\ vid_date' = ended_day
  /\ idx' = 1
  /\ success' = "None"
  /\ rcs' = NoRun
  /\ pubs' = NoRun
  /\ preVids' = {p \in Profiles : OutPath(ended_day, p) \in vids}
  /\ preFrames' = frames
  /\ preAllVids' = vids
  /\ ran' = ran \cup {ended_day}
  /\ UNCHANGED <<clock, playlist, interval_sec, output_directory, ended_day, frames, vids, todel,
                 closed, lastTick, cause>>

\* the datetimes the clock can show
Instants == Days \X Slots

\* what the encoder process may do: its exit status, and whether it left
\* its output file
EncoderOutcomes == {0, 1} \X BOOLEAN

\* an encoder that leaves its output file whenever it exits 0
EncoderContract == {o \in EncoderOutcomes : o[1] = 0 => o[2]}

\* lines 38-52: one profile: skip it, or run the encoder and fold its status.
\* The encoder runs for a while and the wall clock goes on (or is set)
\* meanwhile: to any instant, one of another date included
EncodeWith(outcomes) ==
  /\ pc = "enc"
  /\ IF MustSkip(vids, vid_date, idx)
     THEN /\ success' = SkipSuccess(success)
          /\ rcs' = [rcs EXCEPT ![idx] = "skip"]
          /\ pc' = NextPc(idx)
          /\ idx' = IF NextPc(idx) = "enc" THEN NextIdx(idx) ELSE idx
          /\ UNCHANGED <<vids, clock>>
     ELSE \E rc \in {0, 1}, wrote \in BOOLEAN, c \in Instants :
          /\ <<rc, wrote>> \in outcomes
          /\ clock' = c
          /\ vids' = IF wrote THEN vids \cup {OutPath(vid_date, idx)} ELSE vids
          /\ success' = FoldSuccess(success, rc)
          /\ rcs' = [rcs EXCEPT ![idx] = IF rc = 0 THEN "rc0" ELSE "rc1"]
          /\ IF PublishWanted(UploadTitle(idx, playlist), rc)
             THEN pc' = "pub" /\ UNCHANGED idx
             ELSE pc' = AfterEncode(idx, rc)
                  /\ idx' = IF AfterEncode(idx, rc) = "enc" THEN NextIdx(idx) ELSE idx
  /\ UNCHANGED <<sun, playlist, interval_sec, output_directory, ended_day, frames, vid_date,
                 todel, pubs, preVids, preFrames, preAllVids, closed, ran,
                 lastTick, cause>>

Encode == EncodeWith(EncoderOutcomes)

EncodeKept == EncodeWith(EncoderContract)

\* lines 53-54: youtube-upload, bounded by timeout=600
Publish ==
  /\ pc = "pub"
  /\ \E outcome \in {"ok", "fail", "timeout"} :
       /\ pubs' = [pubs EXCEPT ![idx] = outcome]
       /\ pc' = AfterPublish(outcome, NextPc(idx))
       /\ idx' = IF AfterPublish(outcome, NextPc(idx)) = "enc" THEN NextIdx(idx) ELSE idx
       /\ cause' = IF outcome = "timeout"
                   THEN [why |-> "timeout", at |-> "pub"] ELSE cause
       /\ sun' = IF outcome = "timeout" THEN NoSun ELSE sun
  /\ UNCHANGED <<clock, playlist, interval_sec, output_directory, ended_day, frames, vids,
                 vid_date, success, todel, rcs, preVids, preFrames, preAllVids,
                 closed, ran, lastTick>>

\* lines 56-59: the deletion decision
Check ==
  /\ pc = "check"
  /\ IF ShouldDelete(success, vids, vid_date)
     THEN pc' = "del" /\ todel' = Glob(frames, output_directory, vid_date)
     ELSE pc' = "sleep" /\ UNCHANGED todel
  /\ UNCHANGED <<clock, sun, playlist, interval_sec, output_directory, ended_day, frames, vids,
                 vid_date, idx, success, hist>>

\* lines 59-61: os.remove, one file per step, in the order glob lists them
Delete ==
  /\ pc = "del"
  /\ IF todel = {}
     THEN pc' = "sleep" /\ UNCHANGED <<frames, todel>>
     ELSE \E f \in todel :
            /\ frames' = frames \ {f}
            /\ todel' = todel \ {f}
            /\ UNCHANGED pc
  /\ UNCHANGED <<clock, sun, playlist, interval_sec, output_directory, ended_day, vids, vid_date,
                 idx, success, hist>>

\* line 100: time.sleep(interval_sec).  A negative interval raises ValueError
\* and one too large OverflowError or OSError, which nothing catches.
\* Otherwise the next tick reads the wall clock (line 73), which the system
\* may have set forward or back in the meantime: any instant; on another date
\* than the latest tick's SUN reports anew.  The locals of a finished
\* save_video are gone by then.
Sleep ==
  /\ pc = "sleep"
  /\ IF interval_sec # "nonnegative"
     THEN /\ pc' = "crashed"
          /\ cause' = [why |-> "interval", at |-> "sleep"]
          /\ sun' = NoSun
          /\ UNCHANGED <<clock, vid_date, idx, success, rcs, pubs, preVids,
                         preFrames, preAllVids, lastTick>>
     ELSE /\ \E c \in Instants :
               /\ clock' = c
               /\ IF c[1] = lastTick.day THEN UNCHANGED sun ELSE sun' \in Suns
          /\ pc' = "tick"
          /\ vid_date' = 0
          /\ idx' = 0
          /\ success' = "None"
          /\ rcs' = NoRun
          /\ pubs' = NoRun
          /\ preVids' = {}
          /\ preFrames' = {}
          /\ preAllVids' = {}
          /\ lastTick' = NoTick
          /\ UNCHANGED cause
  /\ UNCHANGED <<playlist, interval_sec, output_directory, ended_day, frames, vids, todel,
                 closed, ran>>

LoopPcs == {"tick", "presave", "sleep", "enc", "pub", "check", "del"}

\* lines 102-103: KeyboardInterrupt, raised wherever the thread is inside the try
\* block; an encoder killed part-way may leave its output file behind
Interrupt ==
  /\ pc \in LoopPcs
  /\ pc' = AfterInterrupt(pc)
  /\ cause' = [why |-> "interrupt", at |-> pc]
  /\ sun' = NoSun
  /\ IF pc = "enc" /\ ~MustSkip(vids, vid_date, idx)
     THEN vids' \in {vids, vids \cup {OutPath(vid_date, idx)}}
     ELSE UNCHANGED vids
  /\ UNCHANGED <<clock, playlist, interval_sec, output_directory, ended_day, frames, vid_date, idx,
                 success, todel, rcs, pubs, preVids, preFrames, preAllVids, closed, ran, lastTick>>

Next ==
  \/ TickSunFault
  \/ TickIdle
  \/ TickCapture
  \/ TickClose
  \/ CallSaveVideo
  \/ Encode
  \/ Publish
  \/ Check
  \/ Delete
  \/ Sleep
  \/ Interrupt

Spec == Init /\ [][Next]_vars

\* the same program with an encoder that keeps its contract
NextEncoderContract ==
  \/ TickSunFault
  \/ TickIdle
  \/ TickCapture
  \/ TickClose
  \/ CallSaveVideo
  \/ EncodeKept
  \/ Publish
  \/ Check
  \/ Delete
  \/ Sleep
  \/ Interrupt

SpecEncoderContract == Init /\ [][NextEncoderContract]_vars

----------------------------------------------------------------------------
(* Vocabulary of the properties *)

\* a save_video run is under way or has just ended (its locals are still there)
InRun == vid_date # 0

\* save_video has returned to the tick that called it
Returned == InRun /\ pc = "sleep"

\* the run was left by the TimeoutExpired of the publish call
TimedOut == InRun /\ pc = "crashed" /\ cause.why = "timeout"

\* frames the current run has removed so far
Removed == preFrames \ frames

AllOutputsExist == \A p \in Profiles : OutPath(vid_date, p) \in vids

AllExitedZero == \A p \in Profiles : rcs[p] = "rc0"

\* what the tick that has just branched saw: now, the marker before it, the
\* sunrise and sunset it was given, and the branch it took
TickSaw ==
  IF sun = NoSun
  THEN [day |-> 0, slot |-> 0, ended |-> 0, branch |-> "none", sunrise |-> 0, sunset |-> 0]
  ELSE [day |-> lastTick.day, slot |-> lastTick.slot, ended |-> lastTick.ended,
        branch |-> lastTick.branch, sunrise |-> sun[1], sunset |-> sun[2]]

\* the frames of a set, in whatever directory, that carry the date day
FramesOf(fs, day) == {f \in fs : f[1] = day}

\* the step of a tick that takes the end-of-day branch
CloseStep == lastTick' # lastTick /\ lastTick'.branch = "close"

\* the step that enters save_video
CallStep == pc = "presave" /\ pc' = "enc"

----------------------------------------------------------------------------
\* C1: safe deletion.  Whenever a frame has been removed by a save_video run,
\* the aggregate flag is true and every profile's output file is on disk, and
\* every profile was encoded in this run with exit status 0; so after an
\* encoder that exited 0 without leaving its file, or after a skipped or
\* failed profile, nothing is removed.
C1_SafeDeletion ==
  (Removed # {} \/ pc = "del") =>
     /\ success = "True"
     /\ AllOutputsExist
     /\ AllExitedZero
     /\ Removed \subseteq Glob(preFrames, output_directory, vid_date)

\* C1 witness: the deletion loop has removed every frame of the day.
C1_Witness == pc = "del" /\ todel = {} /\ Removed # {}

\* C2 (as claimed): with no output present beforehand and every encoder
\* exiting 0, once the call to save_video is over (it returned, or the publish
\* call's timeout ended it) every output exists and no frame of the day is
\* left.  Checked with an encoder that leaves its file whenever it exits 0.
C2_AllEncodedThenDeleted ==
  ((Returned \/ TimedOut) /\ preVids = {} /\ AllExitedZero) =>
     (AllOutputsExist /\ Glob(frames, output_directory, vid_date) = {})

\* C3: when some profile's output existed at the call, every frame that was
\* there at the call is still there, during the run and after it.
C3_RerunKeepsFrames == (InRun /\ preVids # {}) => preFrames \subseteq frames

\* C3 witness: the last profile's output pre-existed, the first profile was
\* encoded with exit status 0, both outputs exist now, the run has returned.
C3_Witness ==
  /\ Returned
  /\ preVids = {NumProfiles}
  /\ rcs[1] = "rc0"
  /\ AllOutputsExist
  /\ preFrames # {}

\* C4: after an encoder exited non-zero no frame is removed in that run, and
\* the loop still reaches every later profile: when the loop is over each
\* profile was either encoded or skipped because its output existed already.
C4_FailureDoesNotAbort ==
  (InRun /\ \E p \in Profiles : rcs[p] = "rc1") =>
     /\ preFrames \subseteq frames
     /\ pc # "del"
     /\ pc \in {"check", "sleep"} =>
          \A q \in Profiles : rcs[q] \in {"rc0", "rc1"} \/ (rcs[q] = "skip" /\ q \in preVids)

\* C4 witness: the first encoder exited 1, the second ran and exited 0.
C4_Witness == Returned /\ rcs[1] = "rc1" /\ rcs[NumProfiles] = "rc0"

\* the flag the exit statuses and skips recorded so far fold to
FlagOf(r) ==
  IF \A p \in Profiles : r[p] = "none" THEN "None"
  ELSE IF \A p \in Profiles : r[p] \in {"rc0", "none"} THEN "True"
  ELSE "False"

\* C5 (as claimed): a publish call that failed or timed out leaves the flag
\* as the encoders set it and does not end the run or the loop: control is at
\* the next profile, at the deletion decision or beyond it.
C5_PublishSwallowed ==
  (InRun /\ \E p \in Profiles : pubs[p] \in {"fail", "timeout"}) =>
     /\ success = FlagOf(rcs)
     /\ ~TimedOut

\* the window's end as the tick's comparison sees it: later than the time of
\* day of sunset + margin, and not earlier than that of sunrise - margin
PastEnd(tk) ==
  /\ tk.slot > (tk.sunset + Margin) % DayLen
  /\ tk.slot >= (tk.sunrise - Margin) % DayLen

\* C6 (as claimed): the end-of-day branch is taken exactly once per date: no
\* tick takes it on a date on which an earlier tick took it, and after every
\* tick that finds the date's window over the date is the closed one.
C6_ClosedOncePerDate ==
  /\ [][CloseStep => clock[1] \notin closed]_vars
  /\ []((TickSaw.branch # "none" /\ PastEnd(TickSaw)) => ended_day = TickSaw.day)

\* C7 (as claimed): a save_video run once started is never ended by the
\* interrupt; the interrupt is observed in the sleep that follows the run.
C7_InterruptOnlyInSleep == (InRun /\ cause.why = "interrupt") => cause.at = "sleep"

\* C7 (amended): an interrupt is observed wherever in the loop it arrives and
\* ends the loop there.  Arriving in the wait before save_video it leaves the
\* run unstarted.  Arriving inside save_video it cuts the run short: the
\* profile being encoded and the profiles after it are never completed,
\* before the deletion loop no frame is removed, and inside the deletion loop
\* the frames not yet removed stay.
C7_InterruptCutsRunShort ==
  cause.why = "interrupt" =>
     /\ pc = "exited"
     /\ cause.at \in LoopPcs
     /\ cause.at = "presave" => ~InRun
     /\ cause.at = "enc" => \A q \in idx..NumProfiles : rcs[q] = "none"
     /\ cause.at = "pub" => \A q \in (idx + 1)..NumProfiles : rcs[q] = "none"
     /\ cause.at \in {"enc", "pub", "check"} => preFrames \subseteq frames
     /\ cause.at = "del" => todel \subseteq frames

\* C7 witness: the interrupt arrived in the deletion loop when some frames of
\* the day were removed and others not yet.
C7_Witness ==
  /\ cause.why = "interrupt"
  /\ cause.at = "del"
  /\ Removed # {}
  /\ todel # {}

\* C8 (as claimed): on a tick of a date not marked closed a capture is
\* requested iff sunrise - margin <= now < sunset + margin, as instants.
C8_CaptureIffInWindow ==
  (TickSaw.branch # "none" /\ TickSaw.ended # TickSaw.day) =>
     (TickSaw.branch = "capture" <=>
        /\ TickSaw.sunrise - Margin <= TickSaw.slot
        /\ TickSaw.slot < TickSaw.sunset + Margin)

\* C9: once the interrupt is observed the loop has ended cleanly and nothing
\* further can happen; a date not closed by then has had no save_video run.
C9_InterruptEndsEverything ==
  cause.why = "interrupt" =>
     /\ pc = "exited"
     /\ ~ENABLED Next
     /\ clock[1] \notin closed =>
          /\ clock[1] \notin ran
          /\ vid_date # clock[1]
          /\ ended_day # clock[1]

\* C9 witness: interrupted inside the window of a date with frames waiting.
C9_Witness ==
  /\ cause.why = "interrupt"
  /\ clock[1] \notin closed
  /\ Glob(frames, output_directory, clock[1]) # {}

\* C10: a fault of the capture request ends the loop: nothing further can
\* happen, so the date of the fault, open at the fault, is not closed nor
\* assembled after it.
C10_CaptureFaultIsFatal ==
  cause.why = "capture" =>
     /\ pc = "crashed"
     /\ ~ENABLED Next
     /\ lastTick.branch = "capture"
     /\ clock = <<lastTick.day, lastTick.slot>>
     /\ ended_day # clock[1]
     /\ vid_date = 0

\* C10 witness: the capture faulted on a date whose earlier frames are on disk.
C10_Witness ==
  /\ cause.why = "capture"
  /\ Glob(frames, output_directory, clock[1]) # {}
  /\ clock[1] \notin closed

\* C11 (as claimed): save_video is called at most once for a date: no call
\* is made for a date for which an earlier call was made.
C11_RunOncePerClosedDate == [][CallStep => ended_day \notin ran]_vars

\* C12: a tick that closes a date without frames starts no run, creates no
\* file and removes none, and marks the date closed; and the date is marked
\* closed all through a run and after it, also when an encoder has failed.
C12_EmptyDayIsNoOp ==
  /\ [][(CloseStep /\ Glob(frames, output_directory, clock[1]) = {}) =>
          /\ pc' = "sleep"
          /\ vid_date' = 0
          /\ rcs' = NoRun
          /\ pubs' = NoRun
          /\ frames' = frames
          /\ vids' = vids
          /\ ended_day' = clock[1]]_vars
  /\ [](InRun => ended_day = vid_date)
  /\ [](lastTick.branch = "close" => ended_day = lastTick.day)
  /\ []((lastTick.branch = "close"
          /\ Glob(frames \cup preFrames, output_directory, lastTick.day) = {}) =>
          /\ pc \in {"sleep", "exited", "crashed"}
          /\ ~InRun)

\* C12 witness: a date closed without frames and without a run.
C12_Witness ==
  /\ lastTick.branch = "close"
  /\ ~InRun
  /\ pc = "sleep"
  /\ ended_day = lastTick.day
  /\ Glob(frames, output_directory, lastTick.day) = {}
  /\ lastTick.day \notin ran

\* the profile loop of the run is over
LoopOver == InRun /\ (pc \in {"check", "del"} \/ Returned)

\* C13: at every point of a run the flag is the fold of the results so far:
\* undefined before the first profile, the first profile's result after it,
\* and false from the first skipped or failed profile on; so when the loop is
\* over it is true iff every profile was encoded in this run and exited 0.
C13_FlagIsFoldOfResults ==
  InRun =>
     /\ success = FlagOf(rcs)
     /\ (\E p \in Profiles : rcs[p] \in {"skip", "rc1"}) => success = "False"
     /\ (rcs[1] # "none" /\ \A q \in 2..NumProfiles : rcs[q] = "none") =>
           (success = "True" <=> rcs[1] = "rc0")
     /\ LoopOver => (success = "True" <=> AllExitedZero)

\* C13 witness: the first profile was skipped, the last one encoded with exit
\* status 0, and the flag is false when the loop is over.
C13_Witness ==
  /\ pc = "check"
  /\ rcs[1] = "skip"
  /\ rcs[NumProfiles] = "rc0"
  /\ success = "False"

\* C14: a publish call is made, or about to be made, only for the profile
\* that carries a title, only with a playlist name configured, and only
\* after that profile's encoder ran in this run and exited 0.
C14_PublishOnlyAfterOwnSuccess ==
  \A p \in Profiles :
    (pubs[p] # "none" \/ (pc = "pub" /\ idx = p)) =>
       /\ playlist
       /\ UploadTitle(p, playlist) # "None"
       /\ p = NumProfiles
       /\ rcs[p] = "rc0"
       /\ p \notin preVids

\* C14 witness: the last profile was published and the run has returned.
C14_Witness == Returned /\ pubs[NumProfiles] = "ok" /\ rcs[1] = "rc1"

\* C15: a profile whose output exists is not encoded: it is skipped and its
\* file stays; profiles are skipped for no other reason; and the loop goes on,
\* so that when it is over every profile was skipped or encoded.
C15_ExistingOutputIsSkipped ==
  InRun =>
     /\ \A p \in preVids : rcs[p] \in {"none", "skip"} /\ OutPath(vid_date, p) \in vids
     /\ \A p \in Profiles : rcs[p] = "skip" => p \in preVids
     /\ LoopOver => \A p \in Profiles :
                      IF p \in preVids THEN rcs[p] = "skip" ELSE rcs[p] \in {"rc0", "rc1"}

\* C15 witness: the first profile's output existed and was skipped, the last
\* profile's encoder was run all the same and failed.
C15_Witness ==
  /\ Returned
  /\ preVids = {1}
  /\ rcs[1] = "skip"
  /\ rcs[NumProfiles] = "rc1"

\* C16 (as claimed): a tick changes the marker only by the end-of-day branch
\* and only to its own date, and never back to none; a tick on the marked
\* date is idle: no capture, no run, the marker stays; and no capture is
\* requested on a date that was closed before.
C16_MarkerIsLatestClosedDate ==
  /\ lastTick.branch # "none" =>
        /\ ended_day = IF lastTick.branch = "close" THEN lastTick.day ELSE lastTick.ended
        /\ lastTick.ended # 0 => ended_day # 0
  /\ (lastTick.branch # "none" /\ lastTick.ended = lastTick.day) =>
        /\ lastTick.branch = "closed"
        /\ pc \in {"sleep", "exited", "crashed"}
        /\ ~InRun
        /\ ended_day = lastTick.day
  /\ lastTick.branch = "capture" => lastTick.day \notin closed

\* C17: one thing at a time, in order.  Profiles are taken in declared
\* order; a publish call comes after its own profile's encode and before any
\* later profile's; deletion comes after every profile's encode and publish;
\* and no frame is captured between the start of a run and its end.
C17_StrictOrder ==
  InRun =>
     /\ pc = "enc" =>
          /\ \A q \in 1..(idx - 1) : rcs[q] # "none"
          /\ \A q \in idx..NumProfiles : rcs[q] = "none" /\ pubs[q] = "none"
     /\ pc = "pub" =>
          /\ rcs[idx] = "rc0" /\ pubs[idx] = "none"
          /\ \A q \in 1..(idx - 1) : rcs[q] # "none"
          /\ \A q \in (idx + 1)..NumProfiles : rcs[q] = "none" /\ pubs[q] = "none"
     /\ \A p \in Profiles : pubs[p] # "none" => rcs[p] = "rc0"
     /\ (pc = "del" \/ Removed # {}) =>
          /\ \A q \in Profiles : rcs[q] # "none"
          /\ \A q \in Profiles : UploadTitle(q, playlist) # "None" => pubs[q] \in {"ok", "fail"}
     /\ frames \subseteq preFrames

\* C17 witness: frames are being removed after both encodes and the publish
\* call have returned.
C17_Witness ==
  /\ pc = "del"
  /\ Removed # {}
  /\ pubs[NumProfiles] \in {"ok", "fail"}

\* the files of a set that belong to another date than day
OtherDates(fs, day) == {f \in fs : f[1] # day}

\* C18: a run removes frames of its own date only, and only files its
\* pattern matches, adds no frame, removes no video, and leaves the frames and
\* videos of every other date as they were, also when the wall clock shows
\* another date before the run is over.
C18_OnlyOwnFramesRemoved ==
  InRun =>
     /\ Removed \subseteq Glob(preFrames, output_directory, vid_date)
     /\ Removed \subseteq FramesOf(preFrames, vid_date)
     /\ frames \subseteq preFrames
     /\ OtherDates(frames, vid_date) = OtherDates(preFrames, vid_date)
     /\ preAllVids \subseteq vids
     /\ OtherDates(vids, vid_date) = OtherDates(preAllVids, vid_date)

\* C18 witness: the run has removed every frame of its date while frames and
\* a video of another date are on disk.
C18_Witness ==
  /\ pc = "del"
  /\ todel = {}
  /\ Removed # {}
  /\ OtherDates(frames, vid_date) # {}
  /\ OtherDates(vids, vid_date) # {}
  /\ clock[1] # vid_date

\* the tick's date has its window end before its window start, as times of day
Wrapped(tk) == (tk.sunset + Margin) % DayLen < (tk.sunrise - Margin) % DayLen

\* C19: on a date whose window end, as a time of day, is earlier than its
\* window start, no tick requests a capture; a tick before the start leaves
\* the marker as it is, and a tick at or after the start finds the date closed
\* or closes it.
C19_WrappedDayNeverCaptures ==
  (TickSaw.branch # "none" /\ Wrapped(TickSaw)) =>
     /\ TickSaw.branch # "capture"
     /\ TickSaw.slot < (TickSaw.sunrise - Margin) % DayLen =>
          /\ TickSaw.branch \in {"before", "closed"}
          /\ ended_day = TickSaw.ended
     /\ TickSaw.slot >= (TickSaw.sunrise - Margin) % DayLen =>
          /\ TickSaw.branch \in {"close", "closed"}
          /\ ended_day = TickSaw.day
          /\ TickSaw.day \in closed

\* C19 witness: sunset + margin falls past midnight; the tick at the window
\* start closes the date.
C19_Witness ==
  /\ TickSaw.branch = "close"
  /\ TickSaw.sunset + Margin >= DayLen
  /\ TickSaw.sunrise - Margin >= 0
  /\ Wrapped(TickSaw)
  /\ TickSaw.slot = TickSaw.sunrise - Margin

====
